---- MODULE Spec2Model ----
(***************************************************************************)
(* Model of scan-backend.py: the upload validator, the /process handler    *)
(* (job orchestration around the Audiveris subprocess) and the /results    *)
(* file server.                                                            *)
(*                                                                         *)
(* Text is a sequence of atoms.  An atom is one character ("a", ".", "/",  *)
(* "P") or an opaque chunk of characters that holds neither "." nor "/"    *)
(* (a folder name such as "uploads", a uuid4 string such as "J1").         *)
(* A resolved path is a sequence of segments from the filesystem root,     *)
(* each segment a text.  Paths follow POSIX rules ("/" separates).         *)
(***************************************************************************)
EXTENDS Integers, Sequences, FiniteSets, TLC

\* ------------------------------------------------------------------ text

DOT == "."
SEP == "/"

\* str.lower() on one character: the upper-case letters of the alphabet.
LowerChar(c) ==
    CASE c = "P" -> "p"
      [] c = "D" -> "d"
      [] c = "F" -> "f"
      [] c = "N" -> "n"
      [] c = "G" -> "g"
      [] c = "J" -> "j"
      [] c = "E" -> "e"
      [] c = "X" -> "x"
      [] OTHER -> c

UpperChar(c) ==
    CASE c = "p" -> "P"
      [] c = "d" -> "D"
      [] c = "f" -> "F"
      [] c = "n" -> "N"
      [] c = "g" -> "G"
      [] c = "j" -> "J"
      [] c = "e" -> "E"
      [] c = "x" -> "X"
      [] OTHER -> c

\* str.lower()
lower(s) == [i \in 1..Len(s) |-> LowerChar(s[i])]

\* c in s
Contains(s, c) == \E i \in 1..Len(s) : s[i] = c

\* s.rfind(c), 1-based; 0 when c does not occur.
RFind(s, c) ==
    IF Contains(s, c)
    THEN CHOOSE i \in 1..Len(s) : s[i] = c /\ \A j \in (i+1)..Len(s) : s[j] # c
    ELSE 0

\* s[i:] with a 1-based first index.
Drop(s, i) == SubSeq(s, i, Len(s))

\* s[:i] keeping the first i atoms.
Take(s, i) == SubSeq(s, 1, i)

StartsWith(s, p) == Len(s) >= Len(p) /\ Take(s, Len(p)) = p

\* ------------------------------------------------------- configuration

ALLOWED_EXTENSIONS ==
    { <<"p","d","f">>, <<"p","n","g">>, <<"j","p","g">>, <<"j","p","e","g">> }

UPLOAD_FOLDER == <<"uploads">>
OUTPUT_FOLDER == <<"output">>

\* ------------------------------------------------------------ validator

\* filename.rsplit('.', 1)[1]: the text after the last "." (the whole
\* list has one element when there is no ".", which the caller rules out).
rsplit_ext(filename) == Drop(filename, RFind(filename, DOT) + 1)

allowed_file_missing_dot_check(filename) ==
    lower(rsplit_ext(filename)) \in ALLOWED_EXTENSIONS

allowed_file_case_sensitive(filename) ==
    Contains(filename, DOT) /\ rsplit_ext(filename) \in ALLOWED_EXTENSIONS

allowed_file(filename) ==
    Contains(filename, DOT) /\ lower(rsplit_ext(filename)) \in ALLOWED_EXTENSIONS

\* ---------------------------------------------------------------- paths

\* posixpath.splitext (genericpath._splitext): the extension starts at the
\* last "." of the last path component, unless only "."s precede it there.
splitext(p) ==
    LET sepIndex == RFind(p, SEP)
        dotIndex == RFind(p, DOT)
    IN  IF /\ dotIndex > sepIndex
           /\ \E k \in (sepIndex + 1)..(dotIndex - 1) : p[k] # DOT
        THEN [root |-> Take(p, dotIndex - 1), ext |-> Drop(p, dotIndex)]
        ELSE [root |-> p, ext |-> <<>>]

\* posixpath.join(a, b)
path_join(a, b) ==
    IF Len(b) > 0 /\ b[1] = SEP THEN b
    ELSE IF a = <<>> \/ a[Len(a)] = SEP THEN a \o b
    ELSE a \o <<SEP>> \o b

\* str.split('/'): the segments between the separators (empty ones kept).
RECURSIVE Split(_)
Split(s) ==
    IF ~Contains(s, SEP) THEN <<s>>
    ELSE LET i == CHOOSE k \in 1..Len(s) :
                      s[k] = SEP /\ \A j \in 1..(k-1) : s[j] # SEP
         IN  <<Take(s, i - 1)>> \o Split(Drop(s, i + 1))

\* '/'.join(segs)
RECURSIVE JoinSegs(_)
JoinSegs(segs) ==
    IF segs = <<>> THEN <<>>
    ELSE IF Len(segs) = 1 THEN segs[1]
    ELSE segs[1] \o <<SEP>> \o JoinSegs(Tail(segs))

PARENT == <<DOT, DOT>>
HERE == <<DOT>>

\* posixpath.isabs
isabs(s) == Len(s) > 0 /\ s[1] = SEP

\* The directory the server process runs in; relative paths resolve here.
\* It is also the application's root_path (the script is started from its
\* own directory), and it holds the script itself.
Cwd == << <<"srv">> >>
ScriptFile == Cwd \o << <<"scan-backend", DOT, "py">> >>

UploadRoot == Cwd \o <<UPLOAD_FOLDER>>
OutputRoot == Cwd \o <<OUTPUT_FOLDER>>

\* The operating system's path walk (POSIX): from the root for an absolute
\* path and from Cwd otherwise; "" and "." stay, ".." steps up, a name
\* steps down; every directory stepped from has to exist.  The last
\* component itself need not exist.
RECURSIVE Walk(_, _, _)
Walk(cur, segs, ds) ==
    IF segs = <<>> THEN [ok |-> TRUE, path |-> cur]
    ELSE IF cur \notin ds THEN [ok |-> FALSE, path |-> cur]
    ELSE LET s == Head(segs)
         IN  IF s = <<>> \/ s = HERE THEN Walk(cur, Tail(segs), ds)
             ELSE IF s = PARENT
                  THEN Walk(IF cur = <<>> THEN cur ELSE Take(cur, Len(cur) - 1),
                            Tail(segs), ds)
             ELSE Walk(Append(cur, s), Tail(segs), ds)

Resolve(p, ds) == Walk(IF isabs(p) THEN <<>> ELSE Cwd, Split(p), ds)

\* Whether resolved path p lies strictly inside directory root.
Inside(p, root) == Len(p) > Len(root) /\ Take(p, Len(root)) = root

\* Every directory from the root down to p.
Ancestors(p) == { Take(p, n) : n \in 0..Len(p) }

\* ------------------------------------------------------- result server

\* posixpath.normpath: "" and "." components dropped, "name/.." folded,
\* leading ".." kept on a relative path and dropped on an absolute one.
RECURSIVE NormComps(_, _, _)
NormComps(comps, new, initial) ==
    IF comps = <<>> THEN new
    ELSE LET comp == Head(comps)
             rest == Tail(comps)
         IN  IF comp = <<>> \/ comp = HERE THEN NormComps(rest, new, initial)
             ELSE IF \/ comp # PARENT
                     \/ (~initial /\ new = <<>>)
                     \/ (new # <<>> /\ new[Len(new)] = PARENT)
                  THEN NormComps(rest, Append(new, comp), initial)
             ELSE IF new # <<>>
                  THEN NormComps(rest, Take(new, Len(new) - 1), initial)
             ELSE NormComps(rest, new, initial)

normpath(path) ==
    IF path = <<>> THEN HERE
    ELSE LET initial == isabs(path)
             double == /\ StartsWith(path, <<SEP, SEP>>)
                       /\ ~StartsWith(path, <<SEP, SEP, SEP>>)
             joined == JoinSegs(NormComps(Split(path), <<>>, initial))
             out == IF ~initial THEN joined
                    ELSE IF double THEN <<SEP, SEP>> \o joined
                    ELSE <<SEP>> \o joined
         IN  IF out = <<>> THEN HERE ELSE out

NoPath == <<"<none>">>

\* werkzeug.security.safe_join(directory, filename): NoPath stands for None.
safe_join(directory, filename) ==
    LET f == IF filename # <<>> THEN normpath(filename) ELSE filename
    IN  IF isabs(f) \/ f = PARENT \/ StartsWith(f, <<DOT, DOT, SEP>>)
        THEN NoPath
        ELSE path_join(directory, f)

\* os.path.isfile
isfile(p, fs, ds) ==
    LET r == Resolve(p, ds) IN r.ok /\ r.path \in DOMAIN fs

NotFound == [status |-> 404, file |-> <<>>]

send_result_plain_join(path, fs, ds) ==
    LET path_str == path_join(OUTPUT_FOLDER, path)
    IN  IF ~isfile(path_str, fs, ds) THEN NotFound
        ELSE [status |-> 200, file |-> Resolve(path_str, ds).path]

\* flask.send_from_directory(directory, path), the body of send_result:
\* NotFound when safe_join refuses the path or no regular file is there,
\* else the file at the joined path (taken from the application root).
send_result(path, fs, ds) ==
    LET path_str == safe_join(OUTPUT_FOLDER, path)
    IN  IF path_str = NoPath THEN NotFound
        ELSE IF ~isfile(path_str, fs, ds) THEN NotFound
        ELSE [status |-> 200, file |-> Resolve(path_str, ds).path]

\* ---------------------------------------------------------------- state

\* The requests in flight at once.
Reqs == {"A", "B"}

\* Values uuid4 returns.  A version-4 UUID is 122 random bits, written in
\* hexadecimal digits and "-": no "." and no "/" in it, and two calls
\* return different values (the library's contract; the handler itself
\* never compares identifiers).
JobIds == {"J1", "J2"}
NoJob == "none"

\* Client-supplied filenames of the /process requests.
UploadNames ==
    { <<"a", DOT, "p", "n", "g">>,
      <<DOT, "p", "n", "g">>,
      <<"a", DOT, "b", DOT, "J", "p", "G">>,
      <<DOT, DOT, SEP, "a", DOT, "p", "n", "g">>,
      <<"d", SEP, "a", DOT, "p", "d", "f">>,
      <<"a", DOT, "x">>,
      <<"p", "n", "g">>,
      <<>> }

\* What one run of the engine can come to: exit code and captured streams.
EngineResults ==
    [returncode : {0, 1}, stdout : {"", "steps log"}, stderr : {"", "diagnostics"}]

NoResult == [returncode |-> -1, stdout |-> "", stderr |-> ""]

NoContent == [kind |-> "none", of |-> "none"]

NoFiles == [xml |-> <<>>, midi |-> <<>>, musescore |-> <<>>]

\* A response: its status, the keys of its JSON body and their values.
\* json is FALSE for the framework's own answer to an uncaught exception.
NoResponse ==
    [status |-> 0, json |-> FALSE, keys |-> {}, error |-> "", details |-> "",
     files |-> NoFiles]

ErrorResponse(code, msg) ==
    [status |-> code, json |-> TRUE, keys |-> {"error"}, error |-> msg,
     details |-> "", files |-> NoFiles]

\* Flask's answer when the view function raises: 500, no JSON body.
UncaughtResponse ==
    [status |-> 500, json |-> FALSE, keys |-> {}, error |-> "", details |-> "",
     files |-> NoFiles]

NoGet == [path |-> NoPath, status |-> 0, file |-> <<>>]

VARIABLES
    pc,         \* pc[r]: where request r's handler stands
    upload,     \* upload[r]: [present, filename] of the request's "file" part
    job_id,     \* job_id[r]: the handler's job_id, NoJob before line 50
    dirs,       \* the directories that exist (resolved paths)
    files,      \* the regular files that exist: resolved path -> content
    consumed,   \* consumed[r]: the content r's engine read at its input path
    result,     \* result[r]: the engine run's exit code and streams
    runs,       \* runs[r]: how many times r's handler started the engine
    response,   \* response[r]: what the client of r received
    steps,      \* steps[r]: the handler's effects so far, in order
    get,        \* the last GET /results/<path> and its answer
    probe       \* a filename handed to allowed_file and what came back

vars == <<pc, upload, job_id, dirs, files, consumed, result, runs, response,
          steps, get, probe>>

NoUpload == [present |-> FALSE, filename |-> <<>>]
NoProbe == [filename |-> <<>>, checked |-> FALSE, allowed |-> FALSE]

\* create_folders() has run, and nothing else.
InitServer ==
    /\ pc = [r \in Reqs |-> "idle"]
    /\ upload = [r \in Reqs |-> NoUpload]
    /\ job_id = [r \in Reqs |-> NoJob]
    /\ dirs = Ancestors(UploadRoot) \cup Ancestors(OutputRoot)
    /\ files = (ScriptFile :> [kind |-> "source", of |-> "none"])
    /\ consumed = [r \in Reqs |-> NoContent]
    /\ result = [r \in Reqs |-> NoResult]
    /\ runs = [r \in Reqs |-> 0]
    /\ response = [r \in Reqs |-> NoResponse]
    /\ steps = [r \in Reqs |-> <<>>]
    /\ get = NoGet

Init == InitServer /\ probe = NoProbe

\* ---------------------------------------------------- process_sheet_music

\* Line 50: what uuid.uuid4() can return now.
uuid4 == JobIds \ { job_id[q] : q \in Reqs }

\* Lines 51-55: the handler's locals.
input_filename(r) == upload[r].filename

input_path_job_scoped(r) ==
    path_join(path_join(UPLOAD_FOLDER, <<job_id[r]>>), input_filename(r))

input_path(r) == path_join(UPLOAD_FOLDER, input_filename(r))

output_dir_shared(r) == OUTPUT_FOLDER

output_dir(r) == path_join(OUTPUT_FOLDER, <<job_id[r]>>)

\* Line 90.
base_name(r) == splitext(input_filename(r)).root

\* Lines 94-98.
ResultUrl(r, ext) ==
    <<SEP, "results", SEP, job_id[r], SEP>> \o base_name(r) \o <<DOT, ext>>

files_dict(r) ==
    [xml |-> ResultUrl(r, "mxl"), midi |-> ResultUrl(r, "mid"),
     musescore |-> ResultUrl(r, "mscz")]

Finish(r, resp, done) ==
    /\ response' = [response EXCEPT ![r] = resp]
    /\ steps' = [steps EXCEPT ![r] = @ \o done]
    /\ pc' = [pc EXCEPT ![r] = "done"]

\* A POST /process arrives.
Arrive(r) ==
    /\ pc[r] = "idle"
    /\ \E present \in BOOLEAN, name \in UploadNames :
          /\ present \/ name = <<>>
          /\ upload' = [upload EXCEPT ![r] = [present |-> present, filename |-> name]]
    /\ pc' = [pc EXCEPT ![r] = "validate"]
    /\ UNCHANGED <<job_id, dirs, files, consumed, result, runs, response, steps,
                   get, probe>>

\* Lines 40-41, 45-46, 111-112: the three ways out with 400.
Reject(r) ==
    /\ pc[r] = "validate"
    /\ \/ /\ ~upload[r].present
          /\ Finish(r, ErrorResponse(400, "No file part in the request"), <<"respond">>)
       \/ /\ upload[r].present
          /\ upload[r].filename = <<>>
          /\ Finish(r, ErrorResponse(400, "No file selected"), <<"respond">>)
       \/ /\ upload[r].present
          /\ upload[r].filename # <<>>
          /\ ~allowed_file(upload[r].filename)
          /\ Finish(r, ErrorResponse(400, "File type not allowed"), <<"respond">>)
    /\ UNCHANGED <<upload, job_id, dirs, files, consumed, result, runs, get, probe>>

\* Lines 48-50: the upload passes and uuid4 returns a new identifier.
Accept(r) ==
    /\ pc[r] = "validate"
    /\ upload[r].present
    /\ upload[r].filename # <<>>
    /\ allowed_file(upload[r].filename)
    /\ \E j \in uuid4 : job_id' = [job_id EXCEPT ![r] = j]
    /\ steps' = [steps EXCEPT ![r] = @ \o <<"job_id">>]
    /\ pc' = [pc EXCEPT ![r] = "makedirs"]
    /\ UNCHANGED <<upload, dirs, files, consumed, result, runs, response, get, probe>>

Raise(r) == Finish(r, UncaughtResponse, <<"raised">>)

\* Lines 55-56: os.makedirs(output_dir, exist_ok=True), outside any try.
\* It raises when the operating system refuses (permissions, full disk).
Makedirs(r) ==
    /\ pc[r] = "makedirs"
    /\ LET t == Resolve(output_dir(r), dirs)
       IN  \E granted \in BOOLEAN :
              IF t.ok /\ granted /\ t.path \notin DOMAIN files
              THEN /\ dirs' = dirs \cup Ancestors(t.path)
                   /\ steps' = [steps EXCEPT ![r] = @ \o <<"makedirs">>]
                   /\ pc' = [pc EXCEPT ![r] = "save"]
                   /\ UNCHANGED response
              ELSE /\ Raise(r)
                   /\ UNCHANGED dirs
    /\ UNCHANGED <<upload, job_id, files, consumed, result, runs, get, probe>>

\* Line 58: file.save(input_path) opens the path for writing and copies the
\* upload into it, outside any try.  It raises when a directory on the way
\* is missing, when the path names a directory, or when the operating
\* system refuses.
Save(r) ==
    /\ pc[r] = "save"
    /\ LET t == Resolve(input_path(r), dirs)
       IN  \E granted \in BOOLEAN :
              IF t.ok /\ granted /\ t.path \notin dirs
              THEN /\ files' = (t.path :> [kind |-> "upload", of |-> r]) @@ files
                   /\ steps' = [steps EXCEPT ![r] = @ \o <<"save">>]
                   /\ pc' = [pc EXCEPT ![r] = "run"]
                   /\ UNCHANGED response
              ELSE /\ Raise(r)
                   /\ UNCHANGED files
    /\ UNCHANGED <<upload, job_id, dirs, consumed, result, runs, get, probe>>

EngineStart_before_save(r) ==
    /\ pc[r] \in {"save", "run"}
    /\ runs' = [runs EXCEPT ![r] = @ + 1]
    /\ \E started \in BOOLEAN :
          IF started
          THEN /\ steps' = [steps EXCEPT ![r] = @ \o <<"run">>]
               /\ pc' = [pc EXCEPT ![r] = "engine"]
               /\ UNCHANGED response
          ELSE Finish(r, ErrorResponse(500, "An unexpected error occurred"),
                      <<"run", "respond">>)
    /\ UNCHANGED <<upload, job_id, dirs, files, consumed, result, get, probe>>

\* Lines 63-83, 107-109: subprocess.run starts the engine; when the
\* executable cannot be started the OSError is caught by the last handler.
EngineStart(r) ==
    /\ pc[r] = "run"
    /\ runs' = [runs EXCEPT ![r] = @ + 1]
    /\ \E started \in BOOLEAN :
          IF started
          THEN /\ steps' = [steps EXCEPT ![r] = @ \o <<"run">>]
               /\ pc' = [pc EXCEPT ![r] = "engine"]
               /\ UNCHANGED response
          ELSE Finish(r, ErrorResponse(500, "An unexpected error occurred"),
                      <<"run", "respond">>)
    /\ UNCHANGED <<upload, job_id, dirs, files, consumed, result, get, probe>>

\* The engine, running, opens the input path it was given and reads
\* whatever that file holds by then.
EngineRead(r) ==
    /\ pc[r] = "engine"
    /\ LET t == Resolve(input_path(r), dirs)
       IN  /\ t.ok
           /\ t.path \in DOMAIN files
           /\ consumed' = [consumed EXCEPT ![r] = files[t.path]]
    /\ pc' = [pc EXCEPT ![r] = "engine_read"]
    /\ UNCHANGED <<upload, job_id, dirs, files, result, runs, response, steps,
                   get, probe>>

ARTIFACT_EXTS == {"mxl", "mid", "mscz"}

\* The files the engine leaves in the job's directory when it exports: one
\* per artifact kind, named after the input, each directly in output_dir.
EngineArtifacts(r) ==
    LET out == Resolve(output_dir(r), dirs)
        at(ext) == Resolve(path_join(output_dir(r),
                                     base_name(r) \o <<DOT, ext>>), dirs)
    IN  { at(ext).path : ext \in { e \in ARTIFACT_EXTS :
              /\ out.ok
              /\ at(e).ok
              /\ Len(at(e).path) = Len(out.path) + 1
              /\ Inside(at(e).path, out.path) } }

details_from_stdout(res) == res.stdout

\* Line 106: the "details" of an engine failure.
details(res) == res.stderr

EngineFailure(res) ==
    [status |-> 500, json |-> TRUE, keys |-> {"error", "details"},
     error |-> "Failed to process the sheet music with Audiveris.",
     details |-> details(res), files |-> NoFiles]

Success(r) ==
    [status |-> 200, json |-> TRUE, keys |-> {"xml", "midi", "musescore"},
     error |-> "", details |-> "", files |-> files_dict(r)]

\* Lines 83-106: the engine exits and subprocess.run returns or, with
\* check=True and a non-zero exit, raises CalledProcessError.
EngineExit(r) ==
    /\ pc[r] \in {"engine", "engine_read"}
    /\ \E res \in EngineResults, exported \in BOOLEAN :
          /\ exported => (res.returncode = 0 /\ pc[r] = "engine_read")
          /\ result' = [result EXCEPT ![r] = res]
          /\ files' = IF exported
                      THEN [p \in EngineArtifacts(r) |->
                               [kind |-> "omr", of |-> consumed[r].of]] @@ files
                      ELSE files
          /\ IF res.returncode = 0
             THEN Finish(r, Success(r), <<"exit", "respond">>)
             ELSE Finish(r, EngineFailure(res), <<"exit", "respond">>)
    /\ UNCHANGED <<upload, job_id, dirs, consumed, runs, get, probe>>

\* ------------------------------------------------------------ GET /results

GetPrefixes ==
    { <<>>,
      <<DOT, SEP>>,
      <<DOT, DOT, SEP>>,
      <<DOT, DOT, SEP, DOT, DOT, SEP>>,
      <<"J1", SEP, DOT, DOT, SEP, DOT, DOT, SEP>> }

GetTargets ==
    { <<"J1", SEP, "a", DOT, "mxl">>,
      <<"J1", SEP, "missing", DOT, "mxl">>,
      <<"J1">>,
      <<"uploads", SEP, "a", DOT, "p", "n", "g">>,
      <<"a", DOT, "p", "n", "g">>,
      <<"scan-backend", DOT, "py">>,
      <<"srv", SEP, "scan-backend", DOT, "py">> }

GetPaths == { pre \o tgt : pre \in GetPrefixes, tgt \in GetTargets }

\* Lines 114-117.
SendResult ==
    /\ \E p \in GetPaths :
          LET a == send_result(p, files, dirs)
          IN  get' = [path |-> p, status |-> a.status, file |-> a.file]
    /\ UNCHANGED <<pc, upload, job_id, dirs, files, consumed, result, runs,
                   response, steps, probe>>

\* One step of the handler of request r.
Handler(r) ==
    \/ Arrive(r)
    \/ Reject(r)
    \/ Accept(r)
    \/ Makedirs(r)
    \/ Save(r)
    \/ EngineStart(r)
    \/ EngineRead(r)
    \/ EngineExit(r)

\* The /process requests of Reqs, interleaved.
Next == \E r \in Reqs : Handler(r)

Spec == Init /\ [][Next]_vars

\* One /process request and any number of GET /results requests.
ServeReqs == {"A"}

NextServe == (\E r \in ServeReqs : Handler(r)) \/ SendResult

SpecServe == Init /\ [][NextServe]_vars

\* ------------------------------------------------- the validator, alone

MaxStemLen == 4

StemChars == {"a", DOT, SEP}

RECURSIVE SeqsUpTo(_, _)
SeqsUpTo(S, n) ==
    IF n = 0 THEN {<<>>}
    ELSE LET shorter == SeqsUpTo(S, n - 1)
         IN  shorter \cup { Append(q, c) : q \in shorter, c \in S }

\* Every spelling of word in upper and lower case.
RECURSIVE CaseVariants(_)
CaseVariants(word) ==
    IF word = <<>> THEN {<<>>}
    ELSE { <<c>> \o rest : c \in {Head(word), UpperChar(Head(word))},
                           rest \in CaseVariants(Tail(word)) }

\* Endings of a filename: the allowed extensions in every letter case, and
\* some that are not allowed.
Tails ==
    UNION { CaseVariants(e) : e \in ALLOWED_EXTENSIONS }
      \cup { <<>>, <<"x">>, <<"p", "n">>, <<"p", "n", "g", "x">>,
             <<"g", "i", "f">>, <<"P", "D">>, <<"j", "p", "e">> }

Filenames == { stem \o tail : stem \in SeqsUpTo(StemChars, MaxStemLen), tail \in Tails }

InitValidator ==
    /\ InitServer
    /\ probe \in { [NoProbe EXCEPT !.filename = f] : f \in Filenames }

\* allowed_file(filename) on the probe.
CheckFile ==
    /\ ~probe.checked
    /\ probe' = [probe EXCEPT !.checked = TRUE,
                              !.allowed = allowed_file(probe.filename)]
    /\ UNCHANGED <<pc, upload, job_id, dirs, files, consumed, result, runs,
                   response, steps, get>>

SpecValidator == InitValidator /\ [][CheckFile]_vars

\* ---------------------------------------------------------------- claims

\* ext spells word up to letter case.
SameUpToCase(ext, word) ==
    /\ Len(ext) = Len(word)
    /\ \A i \in 1..Len(word) : ext[i] \in {word[i], UpperChar(word[i])}

\* filename is stem + "." + ext with no "." in ext, and ext spells one of
\* pdf, png, jpg, jpeg in some letter case.
HasAllowedExtension(filename) ==
    \E i \in 1..Len(filename) :
        /\ filename[i] = DOT
        /\ \A j \in (i + 1)..Len(filename) : filename[j] # DOT
        /\ \E word \in { <<"p","d","f">>, <<"p","n","g">>, <<"j","p","g">>,
                         <<"j","p","e","g">> } :
              SameUpToCase(SubSeq(filename, i + 1, Len(filename)), word)

\* C1: allowed_file accepts a filename exactly when it has a "." and the
\* text after its last "." is pdf, png, jpg or jpeg in any letter case; a
\* name without "." and a name ending in "." are rejected.
C1_AllowedIffExtension ==
    probe.checked =>
        /\ probe.allowed <=> HasAllowedExtension(probe.filename)
        /\ ~Contains(probe.filename, DOT) => ~probe.allowed
        /\ (probe.filename # <<>> /\ probe.filename[Len(probe.filename)] = DOT)
              => ~probe.allowed

\* An accepted name whose extension is not all lower case, with more than
\* one "." in it.
C1_Witness ==
    /\ probe.checked
    /\ probe.allowed
    /\ rsplit_ext(probe.filename) # lower(rsplit_ext(probe.filename))
    /\ Cardinality({ i \in 1..Len(probe.filename) : probe.filename[i] = DOT }) > 1

\* What the request of r is: invalid (no file part, empty filename, or a
\* filename without an allowed extension) or accepted.
Invalid(r) ==
    \/ ~upload[r].present
    \/ upload[r].filename = <<>>
    \/ ~HasAllowedExtension(upload[r].filename)

Arrived(r) == pc[r] # "idle"
Accepted(r) == Arrived(r) /\ ~Invalid(r)
Done(r) == pc[r] = "done"
Did(r, step) == \E i \in 1..Len(steps[r]) : steps[r][i] = step

\* The filename without its final "." and the extension after it.
Stripped(filename) == Take(filename, RFind(filename, DOT) - 1)

ExpectedFiles(r) ==
    LET url(ext) == <<SEP, "results", SEP, job_id[r], SEP>>
                        \o Stripped(upload[r].filename) \o <<DOT, ext>>
    IN  [xml |-> url("mxl"), midi |-> url("mid"), musescore |-> url("mscz")]

\* C2: an accepted upload whose engine run exits 0 is answered 200 with
\* exactly xml, midi and musescore set to /results/J/B.mxl, .mid and .mscz,
\* B being the filename without its final "." and extension.
C2_PathsFromStrippedName ==
    \A r \in Reqs :
        (Done(r) /\ result[r].returncode = 0) =>
            /\ response[r].status = 200
            /\ response[r].keys = {"xml", "midi", "musescore"}
            /\ response[r].files = ExpectedFiles(r)

\* C3: every failure after validation has passed is answered by the
\* handler itself with status 500 and a JSON body that has an "error"
\* field; none leaves the handler as an uncaught exception.
C3_FailuresAnsweredAsJson ==
    \A r \in Reqs :
        (Done(r) /\ Accepted(r) /\ response[r].status # 200) =>
            /\ response[r].status = 500
            /\ response[r].json
            /\ "error" \in response[r].keys
            /\ ~Did(r, "raised")

\* C4: after a non-zero engine exit the response is 500, its "details" is
\* the engine's captured standard error and not its standard output, the
\* engine was started once only, and no output paths are returned.
C4_EngineFailureCarriesStderr ==
    \A r \in Reqs :
        (result[r] # NoResult /\ result[r].returncode # 0) =>
            /\ response[r].status = 500
            /\ "details" \in response[r].keys
            /\ "error" \in response[r].keys
            /\ response[r].details = result[r].stderr
            /\ (result[r].stdout # result[r].stderr
                    => response[r].details # result[r].stdout)
            /\ runs[r] = 1
            /\ response[r].files = NoFiles
            /\ response[r].keys \cap {"xml", "midi", "musescore"} = {}

\* An engine run that failed with different text on its two streams.
C4_Witness ==
    \E r \in Reqs :
        /\ Done(r)
        /\ result[r].returncode = 1
        /\ result[r].stderr = "diagnostics"
        /\ result[r].stdout = "steps log"
        /\ response[r].details = "diagnostics"

\* C5: every upload written by the handler lies inside the intake
\* directory and every job directory inside the results root, whatever
\* accepted filename the client sent.
C5_WritesStayInsideRoots ==
    /\ \A p \in DOMAIN files :
          files[p].kind = "upload" => Inside(p, UploadRoot)
    /\ \A r \in Reqs :
          Did(r, "makedirs") =>
              /\ Resolve(output_dir(r), dirs).ok
              /\ Inside(Resolve(output_dir(r), dirs).path, OutputRoot)

HasJob(r) == job_id[r] # NoJob

OutputDirOf(r) == Resolve(output_dir(r), dirs).path

UrlsOf(r) ==
    { response[r].files.xml, response[r].files.midi, response[r].files.musescore }

\* C6: no two jobs have the same identifier or the same output directory
\* (nor one inside the other's), even with the identical filename, and
\* the output paths handed to two jobs are never equal.
C6_JobsNeverCollide ==
    \A r1, r2 \in Reqs :
        (r1 # r2 /\ HasJob(r1) /\ HasJob(r2)) =>
            /\ job_id[r1] # job_id[r2]
            /\ OutputDirOf(r1) # OutputDirOf(r2)
            /\ ~Inside(OutputDirOf(r1), OutputDirOf(r2))
            /\ Inside(OutputDirOf(r1), OutputRoot)
            /\ (response[r1].status = 200 /\ response[r2].status = 200)
                  => UrlsOf(r1) \cap UrlsOf(r2) = {}

\* Two finished jobs for the identical filename, both answered 200, both
\* with their directory on disk.
C6_Witness ==
    \E r1, r2 \in Reqs :
        /\ r1 # r2
        /\ upload[r1].filename = upload[r2].filename
        /\ response[r1].status = 200
        /\ response[r2].status = 200
        /\ OutputDirOf(r1) \in dirs
        /\ OutputDirOf(r2) \in dirs

InitDirs == Ancestors(UploadRoot) \cup Ancestors(OutputRoot)

\* C7: a request with no file part, an empty filename or a filename the
\* validator rejects is answered 400 with an "error" field and leaves
\* nothing behind: no job identifier, no directory, no file, no engine run.
C7_RejectionHasNoEffects ==
    /\ \A r \in Reqs :
          (Done(r) /\ Invalid(r)) =>
              /\ response[r].status = 400
              /\ response[r].json
              /\ response[r].keys = {"error"}
              /\ job_id[r] = NoJob
              /\ runs[r] = 0
              /\ consumed[r] = NoContent
              /\ steps[r] = <<"respond">>
              /\ \A p \in DOMAIN files : files[p].of # r
    /\ \A r \in Reqs : (Arrived(r) /\ Invalid(r)) => job_id[r] = NoJob
    /\ dirs = InitDirs \cup
              UNION { Ancestors(OutputDirOf(r)) : r \in { q \in Reqs : Did(q, "makedirs") } }
    /\ \A p \in DOMAIN files :
          files[p].kind # "source" => Did(files[p].of, "save")

\* Every request was rejected, one of them for its file type, and the disk
\* is as create_folders() left it.
C7_Witness ==
    /\ \A r \in Reqs : Done(r) /\ response[r].status = 400
    /\ \E r \in Reqs : response[r].error = "File type not allowed"
    /\ \E r \in Reqs : response[r].error # "File type not allowed"
    /\ dirs = InitDirs
    /\ DOMAIN files = {ScriptFile}

\* Where the operating system finds OUTPUT_FOLDER/path.
Target(path) == Resolve(path_join(OUTPUT_FOLDER, path), dirs)

\* C8: whatever path a GET /results/<path> names, a file is served only
\* from inside the results root, and a path that resolves outside it or
\* to no file is answered 404.
C8_ServedFilesInsideRoot ==
    get.path # NoPath =>
        /\ get.status \in {200, 404}
        /\ get.status = 200 =>
              /\ Inside(get.file, OutputRoot)
              /\ get.file \in DOMAIN files
              /\ get.file = Target(get.path).path
        /\ (\/ ~Target(get.path).ok
            \/ ~Inside(Target(get.path).path, OutputRoot)
            \/ Target(get.path).path \notin DOMAIN files) => get.status = 404

\* A GET whose path climbs out of the results root to a file that exists
\* (the uploaded input), answered 404.
C8_Witness ==
    /\ get.status = 404
    /\ StartsWith(get.path, <<DOT, DOT, SEP>>)
    /\ Target(get.path).ok
    /\ Target(get.path).path \in DOMAIN files
    /\ files[Target(get.path).path].kind = "upload"

IsPrefix(p, q) == Len(p) <= Len(q) /\ Take(q, Len(p)) = p

\* How often an effect shows in the steps of r.
Times(r, step) == Cardinality({ i \in 1..Len(steps[r]) : steps[r][i] = step })

\* C9: in an accepted request the upload is saved to the intake directory
\* before the job's output directory is created, the engine is started
\* only after both, and no effect happens twice.
C9_SaveThenMakedirs ==
    \A r \in Reqs :
        Accepted(r) =>
            /\ Did(r, "makedirs") => Did(r, "save")
            /\ Did(r, "run") => (Did(r, "save") /\ Did(r, "makedirs"))
            /\ \A e \in {"job_id", "save", "makedirs", "run", "exit", "respond"} :
                  Times(r, e) <= 1

\* The ways an accepted request can end.
FullRun == <<"job_id", "makedirs", "save", "run", "exit", "respond">>

Endings ==
    { FullRun,
      <<"job_id", "makedirs", "save", "run", "respond">>,
      <<"job_id", "makedirs", "raised">>,
      <<"job_id", "raised">> }

\* C9 as amended: the effects of an accepted request happen at most once
\* each and in the order job identifier, output directory, saved upload,
\* engine run, engine exit, response; a later one is missing only when an
\* earlier one failed; the engine is started only with the directory and
\* the saved upload on disk.
C9_MakedirsThenSave ==
    \A r \in Reqs :
        Accepted(r) =>
            /\ \E e \in Endings : IsPrefix(steps[r], e)
            /\ Done(r) <=> steps[r] \in Endings
            /\ runs[r] <= 1
            /\ Did(r, "run") =>
                  /\ runs[r] = 1
                  /\ OutputDirOf(r) \in dirs
                  /\ Resolve(input_path(r), dirs).ok
                  /\ Resolve(input_path(r), dirs).path \in DOMAIN files
            /\ response[r].status # 0 <=> Done(r)

C9_Witness ==
    \E r \in Reqs : Accepted(r) /\ Done(r) /\ steps[r] = FullRun /\ runs[r] = 1

\* C10: the intake path depends on the filename alone, so two accepted
\* requests with the same filename share it while their output directories
\* differ, and an engine reads whatever upload was last saved there.
C10_InputNotJobScoped ==
    /\ \A r1, r2 \in Reqs :
          (r1 # r2 /\ HasJob(r1) /\ HasJob(r2)
             /\ upload[r1].filename = upload[r2].filename) =>
              /\ input_path(r1) = input_path(r2)
              /\ OutputDirOf(r1) # OutputDirOf(r2)
    /\ \A r \in Reqs :
          consumed[r] # NoContent =>
              /\ consumed[r].kind = "upload"
              /\ Did(consumed[r].of, "save")
              /\ Resolve(input_path(consumed[r].of), dirs)
                    = Resolve(input_path(r), dirs)

\* The race: B saved over A's upload before A's engine read it; A's
\* engine read B's bytes and exported into A's own directory.
C10_Witness ==
    \E a, b \in Reqs :
        /\ a # b
        /\ upload[a].filename = upload[b].filename
        /\ consumed[a] = [kind |-> "upload", of |-> b]
        /\ response[a].status = 200
        /\ \E p \in DOMAIN files :
              /\ Inside(p, OutputDirOf(a))
              /\ ~Inside(p, OutputDirOf(b))
              /\ files[p] = [kind |-> "omr", of |-> b]

====
